---- MODULE Spec2Model ----
(***************************************************************************)
(* Metro booking server (server.js): the bookings table and the request    *)
(* handlers that create, cancel, fetch, list and validate bookings; and    *)
(* the page (script.js): its fare computations, its booking requests, the  *)
(* bookings it keeps in local storage and their synchronisation.           *)
(*                                                                         *)
(* Time is counted in ticks; TicksPerDay ticks make a calendar day.  The   *)
(* variable now is the server clock in UTC ticks, tz is the server's UTC   *)
(* offset in ticks (local time = now + tz).  Date.now() and                *)
(* CURRENT_TIMESTAMP are both sampled from now.                            *)
(*                                                                         *)
(* A handler that writes is split where the code yields to the event loop: *)
(* the synchronous part up to the first await or db call, the QR encoder's *)
(* completion, and the execution of the SQL statement together with its    *)
(* callback (the callback touches no shared state).  A handler that only   *)
(* reads issues one SELECT and answers in its callback: it is one step,    *)
(* taken when the SELECT runs.  Each SQL statement is atomic.              *)
(*                                                                         *)
(* A string that is parsed is a sequence of characters: a decimal digit is *)
(* its value 0..9, any other character its ASCII code.                     *)
(***************************************************************************)
EXTENDS Integers, Sequences, FiniteSets, TLC

VARIABLES
    now,        \* server clock, UTC ticks
    tz,         \* server UTC offset in ticks, fixed for a run
    bookings,   \* the rows of table bookings
    inflight,   \* per request slot: the handler's position and locals
    last,       \* the request answered last and its response, kept until
                \* the next request is received
    audit,      \* history per booking id (not program state): see Audit0
    client,     \* the page (script.js): its form, its requests, local storage
    catalog,    \* the rows of tables stations and prices
    idgen       \* a clock value, a random value and the booking ids that the
                \* server and the page generate from them

vars == <<now, tz, bookings, inflight, last, audit, client, catalog, idgen>>

----------------------------------------------------------------------------
(* Bounds of the model                                                     *)

TicksPerDay == 2      \* clock resolution: ticks per calendar day
MaxTz == 1            \* |tz| <= MaxTz ticks, and less than a day
Horizon == 3          \* number of clock ticks explored
NumSlots == 2         \* requests that can be in flight at once
MaxBookings == 1      \* booking ids a run may use
MaxDay == 2           \* travel dates are the days 0..MaxDay

FirstTick == TicksPerDay
LastTick == FirstTick + Horizon - 1
Slots == 1..NumSlots
\* A UTC offset is less than a day
Offsets == {z \in (0 - MaxTz)..MaxTz : z < TicksPerDay /\ 0 - z < TicksPerDay}

----------------------------------------------------------------------------
(* Strings of characters as sequences of character codes: a decimal digit  *)
(* is the number 0..9, a letter its ASCII code.                            *)

CharM == 77
CharB == 66

RECURSIVE Digits(_)
\* String(n) for a non-negative integer n
Digits(n) == IF n < 10 THEN <<n>> ELSE Digits(n \div 10) \o <<n % 10>>

\* s.slice(-k): the last k characters, the whole string when it is shorter
SliceLast(s, k) ==
    IF Len(s) <= k THEN s ELSE SubSeq(s, Len(s) - k + 1, Len(s))

\* The high digits of Date.now(), constant over the run; the two low digits
\* are the tick.
EpochDigits == <<1, 7, 6, 2, 1, 5, 6, 8, 0, 0, 0>>

DateNowDigits(t) == EpochDigits \o (IF t < 10 THEN <<0>> ELSE <<>>) \o Digits(t)

IdLen == 10

\* The values Math.floor(Math.random() * 1000) takes in the model
RandomValues == {7, 42}

\* Fault: the template without its MB prefix
BookingIdWithoutPrefix(clock, rnd) == SliceLast(clock \o Digits(rnd), IdLen)

\* `MB${Date.now()}${Math.floor(Math.random() * 1000)}`.slice(-10) of the
\* server, for the digits of a clock value
BookingIdFrom(clock, rnd) ==
    SliceLast(<<CharM, CharB>> \o clock \o Digits(rnd), IdLen)

BookingIdOf(t, rnd) == BookingIdFrom(DateNowDigits(t), rnd)

\* generateBookingId of the page: the same template and slice
GenerateBookingId(clock, rnd) ==
    SliceLast(<<CharM, CharB>> \o clock \o Digits(rnd), IdLen)

\* Math.floor(Math.random() * 1000)
RandomRange == 0..999

\* Clock values: the first milliseconds of 1970, the values around the one
\* from which Date.now() has seven digits, the clock of the run, and the
\* largest value of thirteen digits
ClockValues ==
    {Digits(n) : n \in {0, 9, 99999, 999999, 1000000, 9999999}}
        \cup {DateNowDigits(t) : t \in FirstTick..LastTick}
        \cup {<<9, 9, 9, 9, 9, 9, 9, 9, 9, 9, 9, 9, 9>>}

EmptyId == <<>>

\* Nothing generated yet from the clock and random value
IdGen(clock, rnd) ==
    [clock |-> clock, random |-> rnd, server |-> EmptyId, page |-> EmptyId]

\* An id no booking of the run gets
UnknownId == <<9, 9, 9, 9, 9, 9, 9, 9, 9, 9>>

----------------------------------------------------------------------------
(* Dates.  A travel date string is 'YYYY-MM-DD' for day d (the value of    *)
(* the client's date input), a non-empty string that is no date, or the    *)
(* empty string.  A Date object is its time value in UTC ticks or NaN.     *)

IsoDate(d) == [kind |-> "iso", day |-> d]
InvalidDate == [kind |-> "invalid", day |-> 0]
EmptyDate == [kind |-> "empty", day |-> 0]

NaN == [nan |-> TRUE, t |-> 0]
TimeValue(t) == [nan |-> FALSE, t |-> t]

\* new Date(str): a date-only ISO string is midnight UTC of that day
ParseDate(str) ==
    IF str.kind = "iso" THEN TimeValue(str.day * TicksPerDay) ELSE NaN

\* The server's local calendar day at UTC tick t with offset z
LocalDay(t, z) == (t + z) \div TicksPerDay

\* Fault: setUTCHours(0, 0, 0, 0), midnight UTC of the current UTC day
TodayMidnightUTC(t, z) == TimeValue((t \div TicksPerDay) * TicksPerDay)

\* new Date() followed by setHours(0, 0, 0, 0): midnight local time of the
\* current local day, as a UTC time value
TodayMidnight(t, z) == TimeValue(LocalDay(t, z) * TicksPerDay - z)

\* a < b on Date objects: false when either is NaN
DateLess(a, b) == ~a.nan /\ ~b.nan /\ a.t < b.t

----------------------------------------------------------------------------
(* parseInt and the JavaScript numbers it yields                           *)

\* A number: NaN, or the integer n
NotANumber == [nan |-> TRUE, n |-> 0]

Number(n) == [nan |-> FALSE, n |-> n]

CharSpace == 32
CharPlus == 43
CharMinus == 45
CharDot == 46

\* String(undefined)
UndefinedChars == <<117, 110, 100, 101, 102, 105, 110, 101, 100>>

RECURSIVE TrimStart(_)
TrimStart(s) ==
    IF s # <<>> /\ Head(s) = CharSpace THEN TrimStart(Tail(s)) ELSE s

\* The longest prefix of s made of decimal digits
RECURSIVE DigitPrefix(_)
DigitPrefix(s) ==
    IF s # <<>> /\ Head(s) \in 0..9 THEN <<Head(s)>> \o DigitPrefix(Tail(s))
    ELSE <<>>

\* The value of a sequence of decimal digits
RECURSIVE DigitsValue(_)
DigitsValue(s) ==
    IF s = <<>> THEN 0
    ELSE 10 * DigitsValue(SubSeq(s, 1, Len(s) - 1)) + s[Len(s)]

\* parseInt(s): leading white space, an optional sign, then the digits up to
\* the first character that is not one; NaN without a digit
ParseInt(s) ==
    LET t == TrimStart(s)
        signed == t # <<>> /\ Head(t) \in {CharPlus, CharMinus}
        digits == DigitPrefix(IF signed THEN Tail(t) ELSE t)
    IN IF digits = <<>> THEN NotANumber
       ELSE IF signed /\ Head(t) = CharMinus THEN Number(0 - DigitsValue(digits))
       ELSE Number(DigitsValue(digits))

\* v || d for a number v: d when v is NaN or 0
OrDefault(v, d) == IF v.nan \/ v.n = 0 THEN Number(d) ELSE v

----------------------------------------------------------------------------
(* Request bodies of POST /api/bookings.  A missing field is the empty     *)
(* string, and 0 for the two numbers: all are falsy in JavaScript.         *)
(* passengers is any JSON number or string: the number num/den, or the     *)
(* string str.  totalPrice is an amount in cents.                          *)

JsonNumber(num, den) == [type |-> "number", num |-> num, den |-> den, str |-> ""]

JsonString(str) == [type |-> "string", num |-> 0, den |-> 1, str |-> str]

\* !v for a number or a string v
Falsy(v) == IF v.type = "number" THEN v.num = 0 ELSE v.str = ""

DateValues == {IsoDate(d) : d \in 0..MaxDay} \cup {InvalidDate, EmptyDate}

BaseBody ==
    [from |-> "central", to |-> "airport", date |-> IsoDate(MaxDay),
     time |-> "09:00", passengers |-> JsonNumber(2, 1), ticketType |-> "regular",
     totalPrice |-> 500]

\* Every combination of stations and date, and each other field missing in turn
Bodies ==
    {[BaseBody EXCEPT !.from = f, !.to = t, !.date = d] :
        f \in {"", "central", "airport"}, t \in {"", "airport"}, d \in DateValues}
    \cup {[BaseBody EXCEPT !.time = ""], [BaseBody EXCEPT !.passengers = JsonNumber(0, 1)],
          [BaseBody EXCEPT !.ticketType = ""], [BaseBody EXCEPT !.totalPrice = 0]}

\* One body per outcome of the validation: accepted, and rejected by each check
CoreBodies ==
    {BaseBody, [BaseBody EXCEPT !.to = ""], [BaseBody EXCEPT !.from = "airport"],
     [BaseBody EXCEPT !.date = IsoDate(0)]}

NoBody ==
    [from |-> "", to |-> "", date |-> EmptyDate, time |-> "",
     passengers |-> JsonNumber(0, 1), ticketType |-> "", totalPrice |-> 0]

\* Bodies whose stations, ticket type, passenger count and price vary: one
\* field at a time, and two fields so that two checks of the documented
\* validation order are violated at once
FieldBodies ==
    {BaseBody,
     [BaseBody EXCEPT !.from = "atlantis"],
     [BaseBody EXCEPT !.to = "atlantis"],
     [BaseBody EXCEPT !.ticketType = "vip"],
     [BaseBody EXCEPT !.ticketType = "day-pass", !.totalPrice = 800],
     [BaseBody EXCEPT !.passengers = JsonNumber(0 - 1, 1)],
     [BaseBody EXCEPT !.passengers = JsonNumber(3, 2)],
     [BaseBody EXCEPT !.passengers = JsonString("two")],
     [BaseBody EXCEPT !.totalPrice = 1],
     [BaseBody EXCEPT !.date = IsoDate(0), !.from = "atlantis"],
     [BaseBody EXCEPT !.from = "atlantis", !.ticketType = "vip"],
     [BaseBody EXCEPT !.ticketType = "vip", !.passengers = JsonNumber(0 - 1, 1)]}

----------------------------------------------------------------------------
(* Tables stations and prices after initializeDatabase.  No route changes  *)
(* them; every row is inserted with the column default active = 1.         *)

\* insertInitialStations: the codes of table stations
StationCodes ==
    {"central", "downtown", "university", "mall", "hospital", "airport",
     "stadium", "park"}

\* insertInitialPrices: ticket_type and price (in cents) of table prices
TicketPrices ==
    ("regular" :> 250) @@ ("student" :> 150) @@ ("senior" :> 175)
        @@ ("day-pass" :> 800)

\* A row of table stations; active takes the column default 1
StationRow(id, code, name, position, active) ==
    [id |-> id, code |-> code, name |-> name, position |-> position,
     active |-> active]

\* A row of table prices; the price is in cents
PriceRow(id, type, price, description, active) ==
    [id |-> id, ticket_type |-> type, price |-> price,
     description |-> description, active |-> active]

\* const stations of insertInitialStations
InitialStations ==
    <<[code |-> "central", name |-> "Central Station", position |-> 1],
      [code |-> "downtown", name |-> "Downtown", position |-> 2],
      [code |-> "university", name |-> "University", position |-> 3],
      [code |-> "mall", name |-> "Shopping Mall", position |-> 4],
      [code |-> "hospital", name |-> "City Hospital", position |-> 5],
      [code |-> "airport", name |-> "Airport", position |-> 6],
      [code |-> "stadium", name |-> "Sports Stadium", position |-> 7],
      [code |-> "park", name |-> "City Park", position |-> 8]>>

\* const prices of insertInitialPrices
InitialPrices ==
    <<[ticket_type |-> "regular", price |-> 250, description |-> "Standard fare"],
      [ticket_type |-> "student", price |-> 150,
       description |-> "Student discount fare"],
      [ticket_type |-> "senior", price |-> 175,
       description |-> "Senior citizen fare"],
      [ticket_type |-> "day-pass", price |-> 800,
       description |-> "Unlimited rides for one day"]>>

\* id INTEGER PRIMARY KEY AUTOINCREMENT: one more than the largest id
NextRowId(rows) ==
    IF rows = {} THEN 1
    ELSE 1 + (CHOOSE n \in {r.id : r \in rows} : \A r \in rows : r.id <= n)

\* Fault: INSERT OR REPLACE INTO stations
InsertOrReplaceStation(rows, station) ==
    LET kept == {r \in rows : r.code # station.code} IN
    kept \cup {StationRow(NextRowId(rows), station.code, station.name,
                          station.position, 1)}

\* INSERT OR IGNORE INTO stations (code, name, position) under code UNIQUE
InsertOrIgnoreStation(rows, station) ==
    IF \E r \in rows : r.code = station.code THEN rows
    ELSE rows \cup {StationRow(NextRowId(rows), station.code, station.name,
                               station.position, 1)}

\* INSERT OR IGNORE INTO prices (ticket_type, price, description) under
\* ticket_type UNIQUE
InsertOrIgnorePrice(rows, price) ==
    IF \E r \in rows : r.ticket_type = price.ticket_type THEN rows
    ELSE rows \cup {PriceRow(NextRowId(rows), price.ticket_type, price.price,
                             price.description, 1)}

\* stations.forEach(station => insertStation.run(...)) from the i-th on
RECURSIVE InsertStationsFrom(_, _)
InsertStationsFrom(rows, i) ==
    IF i > Len(InitialStations) THEN rows
    ELSE InsertStationsFrom(InsertOrIgnoreStation(rows, InitialStations[i]), i + 1)

\* prices.forEach(price => insertPrice.run(...)) from the i-th on
RECURSIVE InsertPricesFrom(_, _)
InsertPricesFrom(rows, i) ==
    IF i > Len(InitialPrices) THEN rows
    ELSE InsertPricesFrom(InsertOrIgnorePrice(rows, InitialPrices[i]), i + 1)

\* The number of starts of the server
MaxSeeds == 2

\* The catalog: the two tables, and how often each has been seeded
Catalog(stations, prices) ==
    [stations |-> stations, prices |-> prices, seededStations |-> 0,
     seededPrices |-> 0]

\* The catalog of a new database after initializeDatabase
SeededCatalog == Catalog(InsertStationsFrom({}, 1), InsertPricesFrom({}, 1))

----------------------------------------------------------------------------
(* Responses: HTTP status code, the body's valid flag ("none" when the     *)
(* body has none), its error text, and the booking id of a success body.   *)

Resp(code, valid, error, data) ==
    [code |-> code, valid |-> valid, error |-> error, data |-> data]

NoResp == Resp(0, "none", "", EmptyId)
MissingFields == Resp(400, "none", "Missing required fields", EmptyId)
SameStation == Resp(400, "none", "From and to stations must be different", EmptyId)
PastDate == Resp(400, "none", "Booking date cannot be in the past", EmptyId)
CreateFailed == Resp(500, "none", "Failed to create booking", EmptyId)
Created(id) == Resp(201, "none", "", id)
CancelFailed == Resp(500, "none", "Failed to cancel booking", EmptyId)
NotFoundOrAlreadyCancelled ==
    Resp(404, "none", "Booking not found or already cancelled", EmptyId)
Cancelled == Resp(200, "none", "", EmptyId)
InternalError == Resp(500, "none", "Internal server error", EmptyId)
BookingNotFound == Resp(404, "none", "Booking not found", EmptyId)
Found(id) == Resp(200, "none", "", id)
IdRequired == Resp(400, "none", "Booking ID is required", EmptyId)
InvalidTicket == Resp(404, "false", "Invalid or expired ticket", EmptyId)
Expired == Resp(400, "false", "Ticket has expired", EmptyId)
Valid(id) == Resp(200, "true", "", id)

----------------------------------------------------------------------------
(* POST /api/bookings: the validation sequence                             *)

\* !from || !to || !date || !time || !passengers || !ticketType || !totalPrice
MissingRequired(body) ==
    \/ body.from = ""
    \/ body.to = ""
    \/ body.date.kind = "empty"
    \/ body.time = ""
    \/ Falsy(body.passengers)
    \/ body.ticketType = ""
    \/ body.totalPrice = 0

\* Fault: the station check is missing
SameStationsUnchecked(body) == FALSE

\* from === to
SameStations(body) == body.from = body.to

\* bookingDate < today
DateInPast(body, t, z) == DateLess(ParseDate(body.date), TodayMidnight(t, z))

\* The response of the first failing check, NoResp when all pass
Validation(body, t, z) ==
    IF MissingRequired(body) THEN MissingFields
    ELSE IF SameStations(body) THEN SameStation
    ELSE IF DateInPast(body, t, z) THEN PastDate
    ELSE NoResp

----------------------------------------------------------------------------
(* The QR code: the data URL stands for the payload it encodes, null is    *)
(* the empty sequence.                                                     *)

NoQr == <<>>

QrData(id, body) ==
    [bookingId |-> id, from |-> body.from, to |-> body.to, date |-> body.date,
     time |-> body.time, passengers |-> body.passengers, type |-> body.ticketType]

\* Fault: generateQRCode without its try/catch, the promise is rejected when
\* QRCode.toDataURL throws
GenerateQRCodeUncaught(id, body, encoded) ==
    [rejected |-> ~encoded, value |-> IF encoded THEN <<QrData(id, body)>> ELSE NoQr]

\* generateQRCode: the promise resolves with the data URL, or with null when
\* QRCode.toDataURL throws
GenerateQRCode(id, body, encoded) ==
    [rejected |-> FALSE, value |-> IF encoded THEN <<QrData(id, body)>> ELSE NoQr]

----------------------------------------------------------------------------
(* Table bookings and its three statements                                 *)

\* status TEXT DEFAULT 'active'
StatusDefault == "active"

\* The row of INSERT INTO bookings (...) VALUES (?, ?, ?, ?, ?, ?, ?, ?, ?)
\* at time t; status, created_at and updated_at take their defaults
NewRow(id, body, qr, t) ==
    [id |-> id, from_station |-> body.from, to_station |-> body.to,
     travel_date |-> body.date, travel_time |-> body.time,
     passengers |-> body.passengers, ticket_type |-> body.ticketType,
     total_price |-> body.totalPrice, qr_code |-> qr,
     status |-> StatusDefault, created_at |-> t, updated_at |-> t]

\* Fault: the table has no primary key
InsertUnkeyed(rows, row) == [err |-> FALSE, rows |-> rows \cup {row}]

\* Fault: INSERT OR REPLACE
InsertOrReplace(rows, row) ==
    [err |-> FALSE, rows |-> {r \in rows : r.id # row.id} \cup {row}]

\* INSERT under id TEXT PRIMARY KEY: a constraint error when the id is taken
InsertBooking(rows, row) ==
    IF \E r \in rows : r.id = row.id
    THEN [err |-> TRUE, rows |-> rows]
    ELSE [err |-> FALSE, rows |-> rows \cup {row}]

\* Fault: WHERE id = ?
CancelWhereIdOnly(r, id) == r.id = id

\* WHERE id = ? AND status = 'active'
CancelWhere(r, id) == r.id = id /\ r.status = "active"

\* Fault: UPDATE bookings SET status = 'cancelled', qr_code = NULL,
\* updated_at = CURRENT_TIMESTAMP WHERE status = 'active'
CancelUpdateEveryActive(rows, id, t) ==
    [changes |-> Cardinality({r \in rows : CancelWhere(r, id)}),
     rows |-> {IF r.status = "active"
               THEN [r EXCEPT !.status = "cancelled", !.qr_code = NoQr,
                              !.updated_at = t]
               ELSE r : r \in rows}]

\* UPDATE bookings SET status = 'cancelled', updated_at = CURRENT_TIMESTAMP
\* WHERE ...; changes is this.changes
CancelUpdate(rows, id, t) ==
    [changes |-> Cardinality({r \in rows : CancelWhere(r, id)}),
     rows |-> {IF CancelWhere(r, id)
               THEN [r EXCEPT !.status = "cancelled", !.updated_at = t]
               ELSE r : r \in rows}]

\* Fault: the SELECT of GET /api/bookings/:id with AND status = 'active'
SelectByIdActiveOnly(rows, id) == {r \in rows : r.id = id /\ r.status = "active"}

\* SELECT * FROM bookings WHERE id = ?
SelectById(rows, id) == {r \in rows : r.id = id}

\* Fault: the SELECT of the validation without AND status = 'active'
SelectAnyStatus(rows, id) == {r \in rows : r.id = id}

\* SELECT * FROM bookings WHERE id = ? AND status = 'active'
SelectActive(rows, id) == {r \in rows : r.id = id /\ r.status = "active"}

\* travelDate < today
TicketExpired(row, t, z) ==
    DateLess(ParseDate(row.travel_date), TodayMidnight(t, z))

\* The callback of db.get in POST /api/tickets/validate on the selected rows
ValidateResponse(rows, id, t, z) ==
    LET found == SelectActive(rows, id) IN
    IF found = {} THEN InvalidTicket
    ELSE LET row == CHOOSE r \in found : TRUE IN
         IF TicketExpired(row, t, z) THEN Expired ELSE Valid(row.id)

----------------------------------------------------------------------------
(* GET /api/bookings: query values, paging and the two SELECTs             *)

\* A value of req.query: absent (undefined), or a string
Absent == [present |-> FALSE, chars |-> <<>>]

Given(chars) == [present |-> TRUE, chars |-> chars]

\* String(v) for a value of req.query
QueryString(v) == IF v.present THEN v.chars ELSE UndefinedChars

\* The page values: absent, "abc", "2", "2x"
PageQueries == {Absent, Given(<<97, 98, 99>>), Given(<<2>>), Given(<<2, 120>>)}

\* The limit values: absent, "abc", "1", "1x", "0", "-1"
LimitQueries ==
    {Absent, Given(<<97, 98, 99>>), Given(<<1>>), Given(<<1, 120>>),
     Given(<<0>>), Given(<<CharMinus, 1>>)}

NoQuery == [page |-> Absent, limit |-> Absent]

DefaultPage == 1
DefaultLimit == 10

\* parseInt(req.query.page) || 1
PageOf(query) == OrDefault(ParseInt(QueryString(query.page)), DefaultPage).n

\* parseInt(req.query.limit) || 10
LimitOf(query) == OrDefault(ParseInt(QueryString(query.limit)), DefaultLimit).n

\* (page - 1) * limit
OffsetOf(page, limit) == (page - 1) * limit

\* SELECT COUNT(*) as total FROM bookings
CountBookings(rows) == Cardinality(rows)

\* Fault: Math.floor(total / limit)
PagesFloor(total, limit) ==
    IF limit > 0 THEN total \div limit ELSE (0 - total) \div (0 - limit)

\* Math.ceil(total / limit), limit is never 0
Pages(total, limit) ==
    IF limit > 0 THEN 0 - ((0 - total) \div limit) ELSE 0 - (total \div (0 - limit))

\* The results ORDER BY created_at DESC may produce: every arrangement of
\* the rows in which created_at never increases.  Rows with equal
\* created_at come in any order.
Orderings(rows) ==
    {o \in [1..Cardinality(rows) -> rows] :
        /\ \A i, j \in DOMAIN o : i < j => o[i] # o[j]
        /\ \A i, j \in DOMAIN o : i < j => o[i].created_at >= o[j].created_at}

\* LIMIT ? OFFSET ?: a negative limit is no limit, a negative offset is 0
LimitOffset(o, limit, offset) ==
    LET first == (IF offset < 0 THEN 0 ELSE offset) + 1
        after == IF limit < 0 THEN Len(o) ELSE first + limit - 1
        final == IF after > Len(o) THEN Len(o) ELSE after
    IN SubSeq(o, first, final)

\* The locals page, limit and countResult.total, and of the response body
\* pagination.pages and bookings
NoList == [page |-> 0, limit |-> 0, total |-> 0, pages |-> 0, bookings |-> <<>>]

Listed == Resp(200, "none", "", EmptyId)

----------------------------------------------------------------------------
(* The page (script.js): the passengers and ticket type controls of the    *)
(* booking form, the displayed total, and the total price that             *)
(* processBooking puts into the booking object.  Amounts are in cents.     *)

\* const ticketPrices
ticketPrices ==
    ("regular" :> 250) @@ ("student" :> 150) @@ ("senior" :> 175)
        @@ ("day-pass" :> 800)

\* The values of the passengers control: "", "1", "2", "3", "x"
PassengerValues == {<<>>, <<1>>, <<2>>, <<3>>, <<120>>}

\* The values of the ticket type control
TicketTypeValues == {"", "regular", "student", "senior", "day-pass", "vip"}

\* a * b on numbers
Times(a, b) == IF a.nan \/ b.nan THEN NotANumber ELSE Number(a.n * b.n)

\* ticketPrices[ticketType]: undefined is NaN in a product
PriceLookup(ticketType) ==
    IF ticketType \in DOMAIN ticketPrices THEN Number(ticketPrices[ticketType])
    ELSE NotANumber

\* calculatePrice: the total of the form's passengers and ticket type
CalculatePrice(passengers, ticketType) ==
    LET count == OrDefault(ParseInt(passengers), 1)
        basePrice == OrDefault(PriceLookup(ticketType), 0)
    IN IF ticketType = "day-pass" THEN basePrice ELSE Times(basePrice, count)

\* processBooking: the totalPrice of the booking object
ProcessBookingPrice(passengers, ticketType) ==
    LET count == ParseInt(passengers)
        basePrice == PriceLookup(ticketType)
    IN IF ticketType = "day-pass" THEN basePrice ELSE Times(basePrice, count)

\* (cents / 100).toFixed(2) for an amount that is not negative
ToFixed2(v) ==
    IF v.nan THEN <<78, 97, 78>>
    ELSE Digits(v.n \div 100) \o <<CharDot, (v.n % 100) \div 10, v.n % 10>>

\* Fault: the fallback path multiplies the day pass by the count as well
FallbackPriceTimesCount(passengers, ticketType) ==
    Times(PriceLookup(ticketType), ParseInt(passengers))

\* The fallback path of processBooking: the totalPrice of the booking object
\* built in the catch block
FallbackPrice(passengers, ticketType) ==
    LET count == ParseInt(passengers)
        basePrice == PriceLookup(ticketType)
    IN IF ticketType = "day-pass" THEN basePrice ELSE Times(basePrice, count)

\* The booking object of processBooking.  from, to and time are those of
\* BaseBody; synced is the property that syncLocalBookings adds (undefined,
\* which is falsy, until then); timestamp is not read by any code.
BookingObject(id, date, passengers, ticketType, totalPrice) ==
    [id |-> id, date |-> date, passengers |-> passengers,
     ticketType |-> ticketType, totalPrice |-> totalPrice, synced |-> FALSE]

NoBookingObject == BookingObject(EmptyId, EmptyDate, NotANumber, "", NotANumber)

\* JSON.stringify(booking) as the server's req.body reads it.  A NaN is
\* written as null, which the handler's only test of it (!value) takes as
\* it takes 0.  id and timestamp are not read by the handler.
BodyOf(booking) ==
    [from |-> BaseBody.from, to |-> BaseBody.to, date |-> booking.date,
     time |-> BaseBody.time,
     passengers |-> IF booking.passengers.nan THEN JsonNumber(0, 1)
                    ELSE JsonNumber(booking.passengers.n, 1),
     ticketType |-> booking.ticketType,
     totalPrice |-> IF booking.totalPrice.nan THEN 0 ELSE booking.totalPrice.n]

\* Object.fromEntries(new FormData(bookingForm)): the fields processBooking reads
BookingData(passengers, ticketType, date) ==
    [passengers |-> passengers, ticketType |-> ticketType, date |-> date]

\* No request of the page is on its way to the server
NoFetch == [state |-> "none", from |-> "", body |-> NoBody]

\* fetch('/api/bookings', {method: 'POST', ...}) by processBooking ("submit")
\* or syncLocalBookings ("sync")
Fetch(from, booking) == [state |-> "sent", from |-> from, body |-> BodyOf(booking)]

\* syncLocalBookings is not running
NoSync == [pc |-> "idle", list |-> <<>>, i |-> 0]

\* The page after initializeApp, with the form's default passengers and
\* ticket type: calculatePrice has run, nothing has been submitted, local
\* storage has no bookings.  pc is the position of processBooking, data its
\* argument, net the request on its way, sync the position and locals of
\* syncLocalBookings, shown the id in the confirmation, local the list under
\* 'metroBookings'.  History: submitted, submissions (forms that passed
\* validateBookingForm), quoted (the total displayed at that moment),
\* confirmed (the path that showed the confirmation).
FormOf(passengers, ticketType) ==
    [passengers |-> passengers, ticketType |-> ticketType,
     totalPrice |-> ToFixed2(CalculatePrice(passengers, ticketType)),
     defaults |-> BookingData(passengers, ticketType, EmptyDate),
     submitted |-> FALSE, booking |-> NoBookingObject,
     pc |-> "idle", data |-> BookingData(<<>>, "", EmptyDate),
     net |-> NoFetch, sync |-> NoSync, shown |-> EmptyId, local |-> <<>>,
     submissions |-> 0, quoted |-> <<>>, confirmed |-> "none"]

\* change on the passengers control: calculatePrice
ChangePassengers(value) ==
    /\ value # client.passengers
    /\ client' = [client EXCEPT
           !.passengers = value,
           !.totalPrice = ToFixed2(CalculatePrice(value, client.ticketType))]
    /\ UNCHANGED <<now, tz, bookings, inflight, last, audit, catalog, idgen>>

\* change on the ticket type control: calculatePrice
ChangeTicketType(value) ==
    /\ value # client.ticketType
    /\ client' = [client EXCEPT
           !.ticketType = value,
           !.totalPrice = ToFixed2(CalculatePrice(client.passengers, value))]
    /\ UNCHANGED <<now, tz, bookings, inflight, last, audit, catalog, idgen>>

----------------------------------------------------------------------------
(* State                                                                   *)

\* A request slot.  op, pc, body, id, qr and resp are the handler's
\* position, arguments, locals and response.  The other fields are history:
\* day is the server's local calendar day when the handler was entered (for
\* a validation: when the ticket's date was compared), seen the status of
\* the row with the request's id at that moment ("none": no such row), cause
\* why the statement failed ("dup": primary key taken, "store": another
\* error) or "qr" when the QR code's promise was rejected, prior the ids of
\* the bookings stored when the handler was entered.  query and list are
\* the query string and the locals and response body of GET /api/bookings.
IdleSlot ==
    [op |-> "idle", pc |-> "idle", body |-> NoBody, id |-> EmptyId,
     qr |-> NoQr, resp |-> NoResp, day |-> 0, seen |-> "none",
     cause |-> "", prior |-> {}, query |-> NoQuery, list |-> NoList]

\* History of a booking id: the number of UPDATEs that changed its row, the
\* number of cancel calls answered with success, the local calendar day on
\* which its createBooking call was made, and the ids of the bookings that
\* were stored when that call was made
Audit0(day, prior) ==
    [writes |-> 0, cancelled |-> 0, createdDay |-> day, prior |-> prior]

Ids == {r.id : r \in bookings}

\* The ids a caller passes: those of stored bookings and one of no booking
IdArgs == Ids \cup {UnknownId}

StatusOf(rows, id) ==
    IF \E r \in rows : r.id = id
    THEN (CHOOSE r \in rows : r.id = id).status
    ELSE "none"

\* The ids of the bookings stored or about to be inserted
Claimed ==
    Ids \cup {inflight[s].id : s \in {u \in Slots : inflight[u].op = "create"}}

\* A new request takes the lowest free slot
Free(s) ==
    /\ inflight[s].pc = "idle"
    /\ \A u \in Slots : u < s => inflight[u].pc # "idle"

\* A request is answered at once
AnswerNow(rec) ==
    /\ last' = [rec EXCEPT !.pc = "done"]
    /\ UNCHANGED inflight

\* A request is received and its handler yields in slot s
Receive(s, rec) ==
    /\ inflight' = [inflight EXCEPT ![s] = rec]
    /\ last' = IdleSlot

\* The handler of slot s sends its response: the slot is free again
Answer(s, rec) ==
    /\ inflight' = [inflight EXCEPT ![s] = IdleSlot]
    /\ last' = [rec EXCEPT !.pc = "done"]

Init ==
    /\ now = FirstTick
    /\ tz \in Offsets
    /\ bookings = {}
    /\ inflight = [s \in Slots |-> IdleSlot]
    /\ last = IdleSlot
    /\ audit = << >>
    /\ client = FormOf(<<1>>, "regular")
    /\ catalog = SeededCatalog
    /\ idgen = IdGen(<<0>>, 0)

----------------------------------------------------------------------------
(* The clock                                                               *)

Tick ==
    /\ now < LastTick
    /\ now' = now + 1
    /\ UNCHANGED <<tz, bookings, inflight, last, audit, client, catalog, idgen>>

----------------------------------------------------------------------------
(* POST /api/bookings                                                      *)

\* The handler up to await generateQRCode(...): validation, then the id.
\* At most cap distinct ids are stored or about to be.
CreateStartUpTo(s, body, rnd, cap) ==
    /\ Free(s)
    /\ LET v == Validation(body, now, tz)
           r == [IdleSlot EXCEPT !.op = "create", !.body = body,
                                 !.day = LocalDay(now, tz)]
           id == BookingIdOf(now, rnd)
       IN IF v # NoResp
          THEN AnswerNow([r EXCEPT !.resp = v])
          ELSE /\ Cardinality(Claimed \cup {id}) <= cap
               /\ Receive(s, [r EXCEPT !.pc = "qr", !.id = id,
                                       !.seen = StatusOf(bookings, id),
                                       !.prior = {q.id : q \in bookings}])
    /\ UNCHANGED <<now, tz, bookings, audit, client, catalog, idgen>>

CreateStart(s, body, rnd) == CreateStartUpTo(s, body, rnd, MaxBookings)

\* generateQRCode settles (null when the encoder threw) and db.run is
\* called; a rejection would be caught by the handler's catch block
CreateQr(s, encoded) ==
    /\ inflight[s].op = "create" /\ inflight[s].pc = "qr"
    /\ LET r == inflight[s]
           qrCode == GenerateQRCode(r.id, r.body, encoded)
       IN IF qrCode.rejected
          THEN Answer(s, [r EXCEPT !.resp = InternalError, !.cause = "qr"])
          ELSE /\ inflight' = [inflight EXCEPT ![s].pc = "db", ![s].qr = qrCode.value]
               /\ UNCHANGED last
    /\ UNCHANGED <<now, tz, bookings, audit, client, catalog, idgen>>

\* Fault: the callback of the INSERT ignores err
CreateResponseIgnoringErr(err, id) == Created(id)

\* The callback of the INSERT: 500 on err, else 201 with the booking
CreateResponse(err, id) == IF err THEN CreateFailed ELSE Created(id)

\* The INSERT runs and its callback answers; storeFails is any error of the
\* store other than the primary key's
CreateDb(s, storeFails) ==
    /\ inflight[s].op = "create" /\ inflight[s].pc = "db"
    /\ LET r == inflight[s]
           ins == InsertBooking(bookings, NewRow(r.id, r.body, r.qr, now))
           err == storeFails \/ ins.err
       IN /\ bookings' = IF storeFails THEN bookings ELSE ins.rows
          /\ audit' = IF err THEN audit ELSE (r.id :> Audit0(r.day, r.prior)) @@ audit
          /\ Answer(s, [r EXCEPT
                 !.resp = CreateResponse(err, r.id),
                 !.cause = IF storeFails THEN "store"
                           ELSE IF ins.err THEN "dup" ELSE ""])
    /\ UNCHANGED <<now, tz, client, catalog, idgen>>

----------------------------------------------------------------------------
(* PUT /api/bookings/:id/cancel                                            *)

\* The handler: db.run(updateQuery, ...) is called
CancelStart(s, id) ==
    /\ Free(s)
    /\ Receive(s, [IdleSlot EXCEPT !.op = "cancel", !.pc = "db", !.id = id,
                                   !.seen = StatusOf(bookings, id)])
    /\ UNCHANGED <<now, tz, bookings, audit, client, catalog, idgen>>

\* The UPDATE runs and its callback answers
CancelDb(s, storeFails) ==
    /\ inflight[s].op = "cancel" /\ inflight[s].pc = "db"
    /\ LET r == inflight[s]
           upd == CancelUpdate(bookings, r.id, now)
       IN IF storeFails
          THEN /\ Answer(s, [r EXCEPT !.resp = CancelFailed, !.cause = "store"])
               /\ UNCHANGED <<bookings, audit>>
          ELSE /\ bookings' = upd.rows
               /\ audit' = IF upd.changes = 0 THEN audit
                           ELSE [audit EXCEPT ![r.id].writes = @ + upd.changes,
                                              ![r.id].cancelled = @ + 1]
               /\ Answer(s, [r EXCEPT !.resp = IF upd.changes = 0
                                                THEN NotFoundOrAlreadyCancelled
                                                ELSE Cancelled])
    /\ UNCHANGED <<now, tz, client, catalog, idgen>>

----------------------------------------------------------------------------
(* GET /api/bookings/:id                                                   *)

GetBooking(id, storeFails) ==
    /\ LET found == SelectById(bookings, id) IN
       AnswerNow([IdleSlot EXCEPT
           !.op = "get", !.id = id,
           !.cause = IF storeFails THEN "store" ELSE "",
           !.resp = IF storeFails THEN InternalError
                    ELSE IF found = {} THEN BookingNotFound
                    ELSE Found((CHOOSE x \in found : TRUE).id)])
    /\ UNCHANGED <<now, tz, bookings, audit, client, catalog, idgen>>

----------------------------------------------------------------------------
(* POST /api/tickets/validate                                              *)

\* Fault: a valid ticket is consumed by its validation
ValidateTicketConsuming(id, storeFails) ==
    /\ LET r == [IdleSlot EXCEPT !.op = "validate", !.id = id]
           resp == IF id = EmptyId THEN IdRequired
                   ELSE IF storeFails THEN InternalError
                   ELSE ValidateResponse(bookings, id, now, tz)
       IN /\ AnswerNow([r EXCEPT
                 !.cause = IF storeFails /\ id # EmptyId THEN "store" ELSE "",
                 !.day = IF id = EmptyId THEN 0 ELSE LocalDay(now, tz),
                 !.seen = IF id = EmptyId THEN "none" ELSE StatusOf(bookings, id),
                 !.resp = resp])
          /\ bookings' = IF resp.valid = "true"
                         THEN {IF q.id = id THEN [q EXCEPT !.status = "cancelled"]
                               ELSE q : q \in bookings}
                         ELSE bookings
    /\ UNCHANGED <<now, tz, audit, client, catalog, idgen>>

ValidateTicket(id, storeFails) ==
    /\ LET r == [IdleSlot EXCEPT !.op = "validate", !.id = id] IN
       IF id = EmptyId
       THEN AnswerNow([r EXCEPT !.resp = IdRequired])
       ELSE AnswerNow([r EXCEPT
                !.cause = IF storeFails THEN "store" ELSE "",
                !.day = LocalDay(now, tz),
                !.seen = StatusOf(bookings, id),
                !.resp = IF storeFails THEN InternalError
                         ELSE ValidateResponse(bookings, id, now, tz)])
    /\ UNCHANGED <<now, tz, bookings, audit, client, catalog, idgen>>

----------------------------------------------------------------------------
(* GET /api/bookings                                                       *)

\* The handler: page, limit and offset are computed, db.get is called
ListStart(s, page, limit) ==
    /\ Free(s)
    /\ LET query == [page |-> page, limit |-> limit] IN
       Receive(s, [IdleSlot EXCEPT
           !.op = "list", !.pc = "count", !.query = query,
           !.list = [NoList EXCEPT !.page = PageOf(query), !.limit = LimitOf(query)]])
    /\ UNCHANGED <<now, tz, bookings, audit, client, catalog, idgen>>

\* The count runs; its callback answers 500 or calls db.all
ListCount(s, storeFails) ==
    /\ inflight[s].op = "list" /\ inflight[s].pc = "count"
    /\ LET r == inflight[s] IN
       IF storeFails
       THEN Answer(s, [r EXCEPT !.resp = InternalError, !.cause = "store"])
       ELSE /\ inflight' = [inflight EXCEPT ![s].pc = "db",
                               ![s].list.total = CountBookings(bookings)]
            /\ UNCHANGED last
    /\ UNCHANGED <<now, tz, bookings, audit, client, catalog, idgen>>

\* The SELECT runs, its rows in the order o, and its callback answers
ListDb(s, storeFails, o) ==
    /\ inflight[s].op = "list" /\ inflight[s].pc = "db"
    /\ o \in Orderings(bookings)
    /\ LET r == inflight[s] IN
       IF storeFails
       THEN Answer(s, [r EXCEPT !.resp = InternalError, !.cause = "store"])
       ELSE Answer(s, [r EXCEPT
               !.resp = Listed,
               !.list.pages = Pages(r.list.total, r.list.limit),
               !.list.bookings =
                   LimitOffset(o, r.list.limit, OffsetOf(r.list.page, r.list.limit))])
    /\ UNCHANGED <<now, tz, bookings, audit, client, catalog, idgen>>

----------------------------------------------------------------------------
(* initializeDatabase at a start of the server: the two seeding functions, *)
(* each called from the callback of its CREATE TABLE IF NOT EXISTS.  The   *)
(* statements of one function run in the order in which they were issued.  *)

InsertInitialStations ==
    /\ catalog.seededStations < MaxSeeds
    /\ catalog' = [catalog EXCEPT !.stations = InsertStationsFrom(@, 1),
                                  !.seededStations = @ + 1]
    /\ UNCHANGED <<now, tz, bookings, inflight, last, audit, client, idgen>>

InsertInitialPrices ==
    /\ catalog.seededPrices < MaxSeeds
    /\ catalog' = [catalog EXCEPT !.prices = InsertPricesFrom(@, 1),
                                  !.seededPrices = @ + 1]
    /\ UNCHANGED <<now, tz, bookings, inflight, last, audit, client, idgen>>

----------------------------------------------------------------------------
(* The two id generators on one clock value and random value               *)

ServerBookingId ==
    /\ idgen.server = EmptyId
    /\ idgen' = [idgen EXCEPT !.server = BookingIdFrom(idgen.clock, idgen.random)]
    /\ UNCHANGED <<now, tz, bookings, inflight, last, audit, client, catalog>>

PageBookingId ==
    /\ idgen.page = EmptyId
    /\ idgen' = [idgen EXCEPT !.page = GenerateBookingId(idgen.clock, idgen.random)]
    /\ UNCHANGED <<now, tz, bookings, inflight, last, audit, client, catalog>>

----------------------------------------------------------------------------
(* The page's requests (script.js): handleBookingSubmission and            *)
(* processBooking, storeBookingLocally, showBookingConfirmation and        *)
(* syncLocalBookings.  The browser has the server's clock and UTC offset.  *)
(* One request of the page is on its way to the server at a time: a fetch  *)
(* made while another is on its way can only fail.                         *)

MaxSubmits == 2       \* forms a rider submits

\* The travel dates a rider picks
FormDates == {IsoDate(d) : d \in 1..MaxDay}

\* validateBookingForm: selectedDate < today, today at local midnight
FormDateInPast(date, t, z) == DateLess(ParseDate(date), TodayMidnight(t, z))

\* response.ok: a status in the range 200-299
ResponseOk(resp) == resp.code \in 200..299

\* The request of the page has not reached the server
OnWire ==
    /\ client.net.state = "sent"
    /\ inflight[1].pc = "idle"
    /\ ~(last.op = "create" /\ last.pc = "done")

\* The response to the request of the page has arrived
Responded == client.net.state = "sent" /\ last.op = "create" /\ last.pc = "done"

\* storeBookingLocally: getItem, push, setItem
StoreBookingLocally(list, booking) == Append(list, booking)

\* bookingForm.reset() followed by calculatePrice()
ResetForm(c) ==
    [c EXCEPT
       !.passengers = c.defaults.passengers,
       !.ticketType = c.defaults.ticketType,
       !.totalPrice =
           ToFixed2(CalculatePrice(c.defaults.passengers, c.defaults.ticketType))]

\* The catch block of processBooking: a new id, the fare once more, the
\* booking stored locally and shown, the form reset
Fallback(c, t, rnd) ==
    LET booking ==
          BookingObject(GenerateBookingId(DateNowDigits(t), rnd), c.data.date,
              ParseInt(c.data.passengers), c.data.ticketType,
              FallbackPrice(c.data.passengers, c.data.ticketType))
    IN ResetForm([c EXCEPT
           !.pc = "idle",
           !.local = StoreBookingLocally(@, booking),
           !.shown = booking.id,
           !.confirmed = "offline"])

\* submit: validateBookingForm (from, to and time are taken as filled and
\* valid), and when the timer fires processBooking up to await fetch(...).
\* At most cap forms are submitted.
SubmitBookingUpTo(date, rnd, cap) ==
    /\ client.pc = "idle"
    /\ client.submissions < cap
    /\ client.passengers # <<>> /\ client.ticketType # ""
    /\ ~FormDateInPast(date, now, tz)
    /\ LET data == BookingData(client.passengers, client.ticketType, date)
           booking ==
             BookingObject(GenerateBookingId(DateNowDigits(now), rnd), date,
                 ParseInt(data.passengers), data.ticketType,
                 ProcessBookingPrice(data.passengers, data.ticketType))
       IN client' = [client EXCEPT
              !.submitted = TRUE,
              !.submissions = @ + 1,
              !.quoted = client.totalPrice,
              !.data = data,
              !.booking = booking,
              !.pc = "fetch",
              !.net = IF @.state = "none" THEN Fetch("submit", booking) ELSE @]
    /\ UNCHANGED <<now, tz, bookings, inflight, last, audit, catalog, idgen>>

SubmitBooking(date, rnd) == SubmitBookingUpTo(date, rnd, MaxSubmits)

\* The server receives the request of the page
ServerReceives(rnd, cap) ==
    /\ OnWire
    /\ CreateStartUpTo(1, client.net.body, rnd, cap)

\* processBooking after await fetch(...): on response.ok the confirmation
\* shows the booking object that was sent, which is then stored locally,
\* and the form is reset; otherwise the throw is caught by the catch block
ProcessResponse(rnd) ==
    /\ client.pc = "fetch" /\ client.net.from = "submit" /\ Responded
    /\ LET c == [client EXCEPT !.net = NoFetch]
       IN client' =
            IF ResponseOk(last.resp)
            THEN ResetForm([c EXCEPT
                     !.pc = "idle",
                     !.shown = c.booking.id,
                     !.confirmed = "server",
                     !.local = StoreBookingLocally(@, c.booking)])
            ELSE Fallback(c, now, rnd)
    /\ last' = IdleSlot
    /\ UNCHANGED <<now, tz, bookings, inflight, audit, catalog, idgen>>

\* fetch rejects (no network): the catch block of processBooking
ProcessFetchFails(rnd) ==
    /\ client.pc = "fetch"
    /\ client.net.from = "submit" => OnWire
    /\ client' = Fallback([client EXCEPT
                     !.net = IF @.from = "submit" THEN NoFetch ELSE @], now, rnd)
    /\ UNCHANGED <<now, tz, bookings, inflight, last, audit, catalog, idgen>>

\* The rider looks up the booking id of the confirmation: GET /api/bookings/:id
LookUpShown(storeFails) ==
    /\ client.shown # EmptyId /\ client.net.state = "none"
    /\ GetBooking(client.shown, storeFails)

\* The ticket with the booking id of the confirmation is validated
ValidateShown(storeFails) ==
    /\ client.shown # EmptyId /\ client.net.state = "none"
    /\ ValidateTicket(client.shown, storeFails)

\* The positions from i on of the bookings that are not synced
Unsynced(list, i) == {j \in i..Len(list) : ~list[j].synced}

LeastOf(S) == CHOOSE x \in S : \A y \in S : x <= y

\* The loop of syncLocalBookings from position i of its list on: the fetch
\* for the next booking that is not synced, or after the last one
\* localStorage.setItem('metroBookings', JSON.stringify(localBookings))
SyncFrom(c, list, i) ==
    IF Unsynced(list, i) # {}
    THEN LET j == LeastOf(Unsynced(list, i))
         IN [c EXCEPT
               !.sync = [pc |-> "fetch", list |-> list, i |-> j],
               !.net = IF @.state = "none" THEN Fetch("sync", list[j]) ELSE @]
    ELSE [c EXCEPT !.sync = NoSync, !.local = list]

\* online: syncLocalBookings reads the stored list and starts its loop
SyncLocalBookings ==
    /\ client.sync.pc = "idle"
    /\ client' = SyncFrom(client, client.local, 1)
    /\ UNCHANGED <<now, tz, bookings, inflight, last, audit, catalog, idgen>>

\* syncLocalBookings after await fetch(...): on response.ok the booking is
\* flagged in the list, then the loop goes on
SyncResponse ==
    /\ client.sync.pc = "fetch" /\ client.net.from = "sync" /\ Responded
    /\ LET i == client.sync.i
           list == IF ResponseOk(last.resp)
                   THEN [client.sync.list EXCEPT ![i].synced = TRUE]
                   ELSE client.sync.list
       IN client' = SyncFrom([client EXCEPT !.net = NoFetch], list, i + 1)
    /\ last' = IdleSlot
    /\ UNCHANGED <<now, tz, bookings, inflight, audit, catalog, idgen>>

\* fetch rejects: the catch block in the loop logs, and the loop goes on
SyncFetchFails ==
    /\ client.sync.pc = "fetch"
    /\ client.net.from = "sync" => OnWire
    /\ client' = SyncFrom([client EXCEPT
                     !.net = IF @.from = "sync" THEN NoFetch ELSE @],
                     client.sync.list, client.sync.i + 1)
    /\ UNCHANGED <<now, tz, bookings, inflight, last, audit, catalog, idgen>>

----------------------------------------------------------------------------
(* Spec: requests overlap, with one request body per outcome of the        *)
(* validation.  SpecInputs: one request at a time, with every request body.*)

Handlers(S, B) ==
    \/ \E s \in S, body \in B, rnd \in RandomValues : CreateStart(s, body, rnd)
    \/ \E s \in S, encoded \in BOOLEAN : CreateQr(s, encoded)
    \/ \E s \in S, storeFails \in BOOLEAN : CreateDb(s, storeFails)
    \/ \E s \in S, id \in IdArgs : CancelStart(s, id)
    \/ \E s \in S, storeFails \in BOOLEAN : CancelDb(s, storeFails)
    \/ \E id \in IdArgs, storeFails \in BOOLEAN : GetBooking(id, storeFails)
    \/ \E id \in IdArgs \cup {EmptyId}, storeFails \in BOOLEAN :
          ValidateTicket(id, storeFails)

Next == Tick \/ Handlers(Slots, CoreBodies)

Spec == Init /\ [][Next]_vars

NextInputs == Tick \/ Handlers({1}, Bodies)

SpecInputs == Init /\ [][NextInputs]_vars

\* SpecList: one request at a time; bookings are created, up to MaxListed
\* of them, and listed
MaxListed == 2

NextList ==
    \/ Tick
    \/ \E s \in {1}, rnd \in RandomValues : CreateStartUpTo(s, BaseBody, rnd, MaxListed)
    \/ \E s \in {1}, encoded \in BOOLEAN : CreateQr(s, encoded)
    \/ \E s \in {1}, storeFails \in BOOLEAN : CreateDb(s, storeFails)
    \/ \E s \in {1}, page \in PageQueries, limit \in LimitQueries :
          ListStart(s, page, limit)
    \/ \E s \in {1}, storeFails \in BOOLEAN : ListCount(s, storeFails)
    \/ \E s \in {1}, storeFails \in BOOLEAN :
          \E o \in Orderings(bookings) : ListDb(s, storeFails, o)

SpecList == Init /\ [][NextList]_vars

\* SpecSeed: the server is started, MaxSeeds times, on a database whose
\* station rows for central and airport and price rows for regular and
\* day-pass are each missing, as seeded, or changed since they were seeded
StartingRows(seeded, changed) == {{}, {seeded}, {changed}}

StartingStations ==
    {a \cup b :
        a \in StartingRows(StationRow(1, "central", "Central Station", 1, 1),
                           StationRow(1, "central", "Grand Central", 9, 0)),
        b \in StartingRows(StationRow(6, "airport", "Airport", 6, 1),
                           StationRow(6, "airport", "Airport North", 6, 0))}

StartingPrices ==
    {a \cup b :
        a \in StartingRows(PriceRow(1, "regular", 250, "Standard fare", 1),
                           PriceRow(1, "regular", 300, "Standard fare", 1)),
        b \in StartingRows(PriceRow(4, "day-pass", 800, "Unlimited rides for one day", 1),
                           PriceRow(4, "day-pass", 800, "Unlimited rides for one day", 0))}

InitSeed ==
    /\ now = FirstTick
    /\ tz \in Offsets
    /\ bookings = {}
    /\ inflight = [s \in Slots |-> IdleSlot]
    /\ last = IdleSlot
    /\ audit = << >>
    /\ client = FormOf(<<1>>, "regular")
    /\ catalog \in {Catalog(st, pr) : st \in StartingStations, pr \in StartingPrices}
    /\ idgen = IdGen(<<0>>, 0)

NextSeed == InsertInitialStations \/ InsertInitialPrices

SpecSeed == InitSeed /\ [][NextSeed]_vars

\* SpecId: the id generators alone, from every clock and random value
InitId ==
    /\ now = FirstTick
    /\ tz \in Offsets
    /\ bookings = {}
    /\ inflight = [s \in Slots |-> IdleSlot]
    /\ last = IdleSlot
    /\ audit = << >>
    /\ client = FormOf(<<1>>, "regular")
    /\ catalog = SeededCatalog
    /\ idgen \in {IdGen(clock, rnd) : clock \in ClockValues, rnd \in RandomRange}

NextId == ServerBookingId \/ PageBookingId

SpecId == InitId /\ [][NextId]_vars

\* SpecCancel: one request at a time; bookings are created, up to MaxListed
\* of them, and cancelled
NextCancel ==
    \/ Tick
    \/ \E rnd \in RandomValues : CreateStartUpTo(1, BaseBody, rnd, MaxListed)
    \/ \E encoded \in BOOLEAN : CreateQr(1, encoded)
    \/ \E storeFails \in BOOLEAN : CreateDb(1, storeFails)
    \/ \E id \in IdArgs : CancelStart(1, id)
    \/ \E storeFails \in BOOLEAN : CancelDb(1, storeFails)

SpecCancel == Init /\ [][NextCancel]_vars

\* SpecFare: the page with every value of the passengers and ticket type
\* controls, one form submitted, and the server answering it
InitFare ==
    /\ now = FirstTick
    /\ tz \in Offsets
    /\ bookings = {}
    /\ inflight = [s \in Slots |-> IdleSlot]
    /\ last = IdleSlot
    /\ audit = << >>
    /\ client \in {FormOf(<<1>>, t) : t \in {"", "regular"}}
    /\ catalog = SeededCatalog
    /\ idgen = IdGen(<<0>>, 0)

NextFare ==
    \/ \E value \in PassengerValues : ChangePassengers(value)
    \/ \E value \in TicketTypeValues : ChangeTicketType(value)
    \/ \E rnd \in RandomValues : SubmitBookingUpTo(IsoDate(MaxDay), rnd, MaxBookings)
    \/ \E rnd \in RandomValues : ServerReceives(rnd, MaxBookings)
    \/ \E encoded \in BOOLEAN : CreateQr(1, encoded)
    \/ \E storeFails \in BOOLEAN : CreateDb(1, storeFails)
    \/ \E rnd \in RandomValues : ProcessResponse(rnd)
    \/ \E rnd \in RandomValues : ProcessFetchFails(rnd)

SpecFare == InitFare /\ [][NextFare]_vars

\* SpecClient: the page and the server.  The rider submits up to MaxSubmits
\* forms for two passengers at the regular fare, the network fails at any
\* time, the browser comes online at any time, and the rider looks up and
\* has validated the booking id that the confirmation shows.  The server
\* runs in UTC.
InitClient ==
    /\ now = FirstTick
    /\ tz = 0
    /\ bookings = {}
    /\ inflight = [s \in Slots |-> IdleSlot]
    /\ last = IdleSlot
    /\ audit = << >>
    /\ client = FormOf(<<2>>, "regular")
    /\ catalog = SeededCatalog
    /\ idgen = IdGen(<<0>>, 0)

NextClient ==
    \/ Tick
    \/ \E rnd \in RandomValues : SubmitBooking(IsoDate(MaxDay), rnd)
    \/ \E rnd \in RandomValues : ServerReceives(rnd, MaxListed)
    \/ \E encoded \in BOOLEAN : CreateQr(1, encoded)
    \/ \E storeFails \in BOOLEAN : CreateDb(1, storeFails)
    \/ \E rnd \in RandomValues : ProcessResponse(rnd)
    \/ \E rnd \in RandomValues : ProcessFetchFails(rnd)
    \/ SyncLocalBookings
    \/ SyncResponse
    \/ SyncFetchFails
    \/ \E storeFails \in BOOLEAN : LookUpShown(storeFails)
    \/ \E storeFails \in BOOLEAN : ValidateShown(storeFails)

SpecClient == InitClient /\ [][NextClient]_vars

\* SpecSync: the page and the server with a store that does not fail.  One
\* form is submitted, for any travel date the form accepts.  The browser
\* comes online again and again (each time syncLocalBookings runs), a
\* request that is sent again and again reaches the server, and the server
\* and the page go on with what they have started.
NextSync ==
    \/ Tick
    \/ \E date \in FormDates, rnd \in RandomValues :
          SubmitBookingUpTo(date, rnd, MaxBookings)
    \/ \E rnd \in RandomValues : ServerReceives(rnd, MaxListed)
    \/ \E encoded \in BOOLEAN : CreateQr(1, encoded)
    \/ CreateDb(1, FALSE)
    \/ \E rnd \in RandomValues : ProcessResponse(rnd)
    \/ \E rnd \in RandomValues : ProcessFetchFails(rnd)
    \/ SyncLocalBookings
    \/ SyncResponse
    \/ SyncFetchFails

FairSync ==
    /\ WF_vars(SyncLocalBookings)
    /\ SF_vars(\E rnd \in RandomValues : ServerReceives(rnd, MaxListed))
    /\ WF_vars(\E encoded \in BOOLEAN : CreateQr(1, encoded))
    /\ WF_vars(CreateDb(1, FALSE))
    /\ WF_vars(SyncResponse)

SpecSync == InitClient /\ [][NextSync]_vars /\ FairSync

\* SpecReads: one request at a time, every handler of the bookings API,
\* with one request body per outcome of the validation
NextReads ==
    \/ Tick
    \/ Handlers({1}, CoreBodies)
    \/ \E page \in PageQueries, limit \in LimitQueries : ListStart(1, page, limit)
    \/ \E storeFails \in BOOLEAN : ListCount(1, storeFails)
    \/ \E storeFails \in BOOLEAN :
          \E o \in Orderings(bookings) : ListDb(1, storeFails, o)

SpecReads == Init /\ [][NextReads]_vars

\* SpecFields: one request at a time, with the bodies of FieldBodies
NextFields == Tick \/ Handlers({1}, FieldBodies)

SpecFields == Init /\ [][NextFields]_vars

TypeOK ==
    /\ now \in FirstTick..LastTick
    /\ tz \in Offsets
    /\ \A r \in bookings : Len(r.id) = IdLen
    /\ DOMAIN audit = Ids

----------------------------------------------------------------------------
(* Properties                                                              *)

\* The row of table bookings with the given id
RowOf(id) == CHOOSE r \in bookings : r.id = id

\* The step in which the statement of slot s runs and the handler answers
Completes(s, op) == inflight[s].op = op /\ inflight[s].pc = "db" /\ inflight'[s].pc = "idle"

\* C1: every booking's status is active or cancelled, a booking is created
\* with status active, and the only change of a status is from active to
\* cancelled: a cancelled booking never becomes active again.
C1_StatusLifecycle ==
    [][/\ \A q \in bookings' : q.status \in {"active", "cancelled"}
       /\ \A q \in bookings' :
             (\A r \in bookings : r.id # q.id) => q.status = "active"
       /\ \A r \in bookings : \A q \in bookings' :
             (q.id = r.id /\ q.status # r.status)
                => (r.status = "active" /\ q.status = "cancelled")]_vars

\* C1 witness: a create that generated the id of a cancelled booking has
\* been answered, and the booking is still cancelled
C1_Witness ==
    /\ last.op = "create" /\ last.cause = "dup"
    /\ StatusOf(bookings, last.id) = "cancelled"

\* C2: a cancel of a booking that is already cancelled, or of an id that no
\* booking has, leaves the table as it was (status and updated_at included)
\* and, when the store did not fail, answers NotFoundOrAlreadyCancelled.
C2_CancelAgainChangesNothing ==
    [][\A s \in Slots :
          (Completes(s, "cancel") /\ StatusOf(bookings, inflight[s].id) # "active")
             => /\ bookings' = bookings
                /\ last'.cause # "store" => last'.resp = NotFoundOrAlreadyCancelled]_vars

\* C2 witness: a cancel received after the booking was cancelled has been
\* answered NotFoundOrAlreadyCancelled at a later time than the cancellation
C2_Witness ==
    /\ last.op = "cancel" /\ last.seen = "cancelled"
    /\ last.resp = NotFoundOrAlreadyCancelled
    /\ RowOf(last.id).updated_at < now

\* C3: of the cancel calls for one booking, overlapping or not, exactly one
\* is answered with success and changes the row, once; every other one that
\* the store serves is answered NotFoundOrAlreadyCancelled, and the booking
\* ends cancelled.
C3_OneCancelWins ==
    /\ \A id \in Ids :
          /\ audit[id].writes <= 1
          /\ audit[id].cancelled = audit[id].writes
          /\ (StatusOf(bookings, id) = "cancelled") <=> (audit[id].writes = 1)
    /\ (last.op = "cancel" /\ last.cause # "store" /\ last.id \in Ids)
          => /\ StatusOf(bookings, last.id) = "cancelled"
             /\ audit[last.id].cancelled = 1
             /\ last.resp \in {Cancelled, NotFoundOrAlreadyCancelled}

\* C3 witness: a cancel received while the booking was active has been
\* answered NotFoundOrAlreadyCancelled: another cancel overtook it
C3_Witness ==
    /\ last.op = "cancel" /\ last.seen = "active"
    /\ last.resp = NotFoundOrAlreadyCancelled
    /\ audit[last.id].cancelled = 1

\* C4: no two rows share an id, and an INSERT whose id is already stored
\* fails and leaves every stored row as it was.
C4_NoOverwrite ==
    [][/\ \A q1, q2 \in bookings' : q1.id = q2.id => q1 = q2
       /\ \A s \in Slots :
             (Completes(s, "create") /\ inflight[s].id \in Ids)
                => bookings' = bookings /\ last'.resp = CreateFailed]_vars

\* C4 witness: of two overlapping creates that generated the same id (the
\* id was free when the second one generated it) the second has failed, and
\* the stored row is the first one's
C4_Witness ==
    /\ last.op = "create" /\ last.cause = "dup" /\ last.seen = "none"
    /\ last.id \in Ids
    /\ RowOf(last.id).qr_code # last.qr

\* C5 (refuted by the code): a valid request whose generated id is taken is
\* never answered with an error, the handler retries under a fresh id.
C5_RetryOnCollision ==
    ~(last.op = "create" /\ last.cause = "dup" /\ last.resp = CreateFailed)

\* The response the contract gives a validation: status is that of the row
\* with the ticket's id ("none": no row), date its travel date, day the
\* server's local calendar day
ContractValidate(id, status, date, day) ==
    IF status # "active" THEN InvalidTicket
    ELSE IF date.day < day THEN Expired
    ELSE Valid(id)

\* C6 (refuted by the code): a validation the store serves is answered
\* NotFound when no booking has the id or it is cancelled, Expired when the
\* booking is active and its travel date is a day before the server's
\* local day, Valid when it is that day or a later one.
C6_ValidateByCalendarDay ==
    (/\ last.op = "validate" /\ last.id # EmptyId /\ last.cause # "store"
     /\ last.seen # "none" => RowOf(last.id).travel_date.kind = "iso")
       => last.resp =
             ContractValidate(last.id, last.seen,
                 IF last.seen = "none" THEN EmptyDate
                 ELSE RowOf(last.id).travel_date, last.day)

\* C7: the store with a cancelled booking and the store without it answer a
\* validation of its id alike, whatever its travel date; every validation
\* of an id that is cancelled or of no booking gets the one InvalidTicket
\* response.
C7_CancelledAsUnknown ==
    /\ \A r \in bookings :
          r.status = "cancelled"
             => /\ ValidateResponse(bookings, r.id, now, tz)
                      = ValidateResponse(bookings \ {r}, r.id, now, tz)
                /\ ValidateResponse(bookings, r.id, now, tz)
                      = ValidateResponse(bookings, UnknownId, now, tz)
    /\ (last.op = "validate" /\ last.id # EmptyId /\ last.cause # "store"
        /\ last.seen # "active")
          => last.resp = InvalidTicket

\* C7 witness: a cancelled booking whose travel date has passed has been
\* validated
C7_Witness ==
    /\ last.op = "validate" /\ last.seen = "cancelled"
    /\ last.resp = InvalidTicket
    /\ RowOf(last.id).travel_date.kind = "iso"
    /\ RowOf(last.id).travel_date.day < last.day

\* C8: a request with every required field and equal stations is answered
\* SameStation and nothing is stored for it: no row, and no booking about
\* to be inserted, has equal stations.
C8_SameStationRejected ==
    /\ (last.op = "create" /\ ~MissingRequired(last.body)
        /\ last.body.from = last.body.to)
          => last.resp = SameStation
    /\ \A r \in bookings : r.from_station # r.to_station
    /\ \A s \in Slots :
          inflight[s].op = "create" => inflight[s].body.from # inflight[s].body.to

\* C8 witness: such a request, with a travel date that is not in the past,
\* has been answered while a booking is stored
C8_Witness ==
    /\ last.op = "create" /\ last.resp = SameStation
    /\ last.body.from = last.body.to
    /\ last.body.date.kind = "iso" /\ last.body.date.day > last.day
    /\ bookings # {}

\* C9: a request whose travel date is a calendar day before the server's
\* local day is rejected, at any time of day and offset, by the date check
\* when it gets that far (PastDate); no stored booking has a travel date
\* before the local day on which its request was made.
C9_PastDateRejected ==
    /\ (last.op = "create" /\ last.body.date.kind = "iso"
        /\ last.body.date.day < last.day)
          => /\ last.resp \in {MissingFields, SameStation, PastDate}
             /\ (~MissingRequired(last.body) /\ last.body.from # last.body.to)
                   => last.resp = PastDate
    /\ \A r \in bookings :
          r.travel_date.kind = "iso" => r.travel_date.day >= audit[r.id].createdDay
    /\ \A s \in Slots :
          (inflight[s].op = "create" /\ inflight[s].body.date.kind = "iso")
             => inflight[s].body.date.day >= inflight[s].day

\* C9 witness: on a server east of UTC, in the part of the day in which
\* the UTC date is still yesterday's, a request for yesterday has been
\* answered PastDate
C9_Witness ==
    /\ last.op = "create" /\ last.resp = PastDate
    /\ last.body.date.day + 1 = last.day
    /\ tz > 0 /\ LocalDay(now, tz) = last.day /\ LocalDay(now, 0) < last.day

\* C10 (refuted by the code): a request whose travel date is the server's
\* local day is not answered PastDate
C10_TodayAccepted ==
    (last.op = "create" /\ last.body.date.kind = "iso"
     /\ last.body.date.day = last.day)
       => last.resp # PastDate

\* C11 (refuted by the code): a request with every required field, different
\* stations and a travel date that is not empty and does not parse as a date
\* is answered PastDate, and no stored booking has such a travel date.
C11_UnparsableDateRejected ==
    /\ (last.op = "create" /\ last.pc = "done" /\ last.body.date.kind = "invalid"
        /\ ~MissingRequired(last.body) /\ ~SameStations(last.body))
          => last.resp = PastDate
    /\ \A r \in bookings : r.travel_date.kind # "invalid"

\* The documented validation of createBooking: the kind of the earliest
\* violated check in the order MissingField, SameStation, PastDate,
\* UnknownStation, UnknownTicketType, InvalidPassengerCount; "none" when no
\* check is violated.  day is the server's local calendar day.
PositiveInteger(v) == v.type = "number" /\ v.den = 1 /\ v.num >= 1

ContractPastDate(body, day) ==
    body.date.kind = "invalid" \/ (body.date.kind = "iso" /\ body.date.day < day)

ContractUnknownStation(body) ==
    body.from \notin StationCodes \/ body.to \notin StationCodes

ContractUnknownTicketType(body) == body.ticketType \notin DOMAIN TicketPrices

ContractViolations(body, day) ==
    <<MissingRequired(body), SameStations(body), ContractPastDate(body, day),
      ContractUnknownStation(body), ContractUnknownTicketType(body),
      ~PositiveInteger(body.passengers)>>

ContractKinds ==
    <<"MissingField", "SameStation", "PastDate", "UnknownStation",
      "UnknownTicketType", "InvalidPassengerCount">>

ContractCreate(body, day) ==
    LET v == ContractViolations(body, day)
        failing == {i \in DOMAIN v : v[i]}
    IN IF failing = {} THEN "none"
       ELSE ContractKinds[CHOOSE i \in failing : \A j \in failing : i <= j]

\* The error kind of a response of createBooking
KindOf(resp) ==
    IF resp = MissingFields THEN "MissingField"
    ELSE IF resp = SameStation THEN "SameStation"
    ELSE IF resp = PastDate THEN "PastDate"
    ELSE IF resp = CreateFailed THEN "StoreFailure"
    ELSE "none"

\* The fare of the price table: the unit price for a day pass, the unit
\* price times the passenger count otherwise
ContractFare(type, count) ==
    IF type = "day-pass" THEN TicketPrices[type] ELSE TicketPrices[type] * count

\* C12 (refuted by the code): a request that violates more than one check is
\* answered with the error of the earliest violated check in the order
\* MissingField, SameStation, PastDate, UnknownStation, UnknownTicketType,
\* InvalidPassengerCount.
C12_EarliestCheckWins ==
    (/\ last.op = "create" /\ last.pc = "done"
     /\ Cardinality({i \in 1..6 : ContractViolations(last.body, last.day)[i]}) >= 2)
       => KindOf(last.resp) = ContractCreate(last.body, last.day)

\* C13 (refuted by the code): a request that passes the first three checks
\* and names a station that is not an active station, or a ticket type
\* without an active price, is rejected; every stored booking has two active
\* stations and a ticket type with an active price.
C13_CatalogEntriesOnly ==
    /\ (/\ last.op = "create" /\ last.pc = "done"
        /\ ContractCreate(last.body, last.day) \in {"UnknownStation", "UnknownTicketType"})
          => last.resp.code = 400
    /\ \A r \in bookings :
          /\ r.from_station \in StationCodes /\ r.to_station \in StationCodes
          /\ r.ticket_type \in DOMAIN TicketPrices

\* C14 (refuted by the code): a request whose passenger count is not a
\* positive integer is rejected; every stored booking has an integer
\* passenger count of at least 1.
C14_PositiveIntegerCount ==
    /\ (/\ last.op = "create" /\ last.pc = "done"
        /\ ~PositiveInteger(last.body.passengers))
          => last.resp.code = 400
    /\ \A r \in bookings : PositiveInteger(r.passengers)

\* C15 (refuted by the code): every stored booking with a priced ticket type
\* and a positive integer passenger count has the total price of the price
\* table for that type and count.
C15_TotalPriceIsFare ==
    \A r \in bookings :
        (r.ticket_type \in DOMAIN TicketPrices /\ PositiveInteger(r.passengers))
           => r.total_price = ContractFare(r.ticket_type, r.passengers.num)

\* C16 (refuted by the code): for a ticket type with a price and a passenger
\* count of at least 1 the fare calculator gives the unit price for a day
\* pass and the unit price times the count otherwise, and for a ticket type
\* without a price it fails: no total is displayed and no booking object is
\* built for such a type.
C16_FareCalculator ==
    LET count == ParseInt(client.passengers)
        made == client.booking
    IN /\ (client.ticketType \in DOMAIN ticketPrices /\ ~count.nan /\ count.n >= 1)
             => client.totalPrice
                   = ToFixed2(Number(ContractFare(client.ticketType, count.n)))
       /\ (/\ client.submitted /\ made.ticketType \in DOMAIN ticketPrices
           /\ ~made.passengers.nan /\ made.passengers.n >= 1)
             => made.totalPrice
                   = Number(ContractFare(made.ticketType, made.passengers.n))
       /\ client.ticketType \notin DOMAIN ticketPrices
             => client.totalPrice \notin {ToFixed2(Number(n)) : n \in 0..2400}
       /\ client.submitted => made.ticketType \in DOMAIN ticketPrices

\* C17: a failure of the QR encoder never makes createBooking answer or skip
\* the INSERT: the handler goes on to the INSERT with a null QR code, and
\* unless the store itself fails or the id is taken the booking is inserted
\* with qr_code null and status active and the call answers success.
C17_QrFailureNonFatal ==
    [][\A s \in Slots :
          /\ (inflight[s].op = "create" /\ inflight[s].pc = "qr"
              /\ inflight'[s] # inflight[s])
                => /\ inflight'[s].pc = "db"
                   /\ inflight'[s].qr \in {NoQr, <<QrData(inflight[s].id, inflight[s].body)>>}
                   /\ bookings' = bookings /\ last' = last
          /\ (Completes(s, "create") /\ inflight[s].qr = NoQr /\ last'.cause = "")
                => /\ last'.resp = Created(inflight[s].id)
                   /\ \E q \in bookings' \ bookings :
                         /\ q.id = inflight[s].id /\ q.qr_code = NoQr
                         /\ q.status = "active"]_vars

\* C17 witness: a booking whose QR encoding failed has been created and is
\* stored active with a null QR code
C17_Witness ==
    /\ last.op = "create" /\ last.resp = Created(last.id) /\ last.qr = NoQr
    /\ last.id \in Ids /\ RowOf(last.id).qr_code = NoQr
    /\ RowOf(last.id).status = "active"

\* A createBooking or cancelBooking call is answered in this step
Answered(op) ==
    \/ \E s \in Slots : inflight[s].op = op /\ inflight[s].pc # "idle"
                         /\ inflight'[s].pc = "idle"
    \/ last' # last /\ last'.op = op /\ last'.pc = "done"

\* C18: a createBooking or cancelBooking call that answers an error has left
\* table bookings as it was; one that answers success is answered in the
\* step in which its statement ran, and that step has made the call's whole
\* change: the new row and no other, or the one row turned from active to
\* cancelled and no other.
C18_AllOrNothing ==
    [][/\ (Answered("create") /\ last'.op = "create")
          => IF last'.resp.code = 201
             THEN /\ \E s \in Slots : Completes(s, "create")
                  /\ \A r \in bookings : r.id # last'.id
                  /\ bookings' = bookings
                        \cup {NewRow(last'.id, last'.body, last'.qr, now)}
             ELSE bookings' = bookings
       /\ (Answered("cancel") /\ last'.op = "cancel")
          => IF last'.resp.code = 200
             THEN /\ \E s \in Slots : Completes(s, "cancel")
                  /\ \E r \in bookings :
                        /\ r.id = last'.id /\ r.status = "active"
                        /\ bookings' = (bookings \ {r})
                              \cup {[r EXCEPT !.status = "cancelled", !.updated_at = now]}
             ELSE bookings' = bookings]_vars

\* C18 witness: a cancelBooking call for an active booking has failed for a
\* store error and the booking is still active
C18_Witness ==
    /\ last.op = "cancel" /\ last.resp = CancelFailed /\ last.cause = "store"
    /\ last.seen = "active" /\ StatusOf(bookings, last.id) = "active"

\* A query value that is not a numeral: absent, or not an optional sign
\* followed by decimal digits only
NonNumeric(v) ==
    \/ ~v.present
    \/ LET signed == v.chars # <<>> /\ Head(v.chars) \in {CharPlus, CharMinus}
           rest == IF signed THEN Tail(v.chars) ELSE v.chars
       IN rest = <<>> \/ \E i \in DOMAIN rest : rest[i] \notin 0..9

\* A query value that does not begin with an integer: absent, or without a
\* decimal digit after leading spaces and an optional sign
NoLeadingInteger(v) ==
    \/ ~v.present
    \/ LET t == TrimStart(v.chars)
           signed == t # <<>> /\ Head(t) \in {CharPlus, CharMinus}
           rest == IF signed THEN Tail(t) ELSE t
       IN rest = <<>> \/ Head(rest) \notin 0..9

\* p = ceil(total / limit) for an integer p and limit # 0
IsCeiling(p, total, limit) ==
    IF limit > 0 THEN p * limit >= total /\ (p - 1) * limit < total
    ELSE p * limit <= total /\ (p - 1) * limit > total

\* The steps of a listBookings call in slot s: page and limit are the
\* defaults for a query value that Defaulted holds of, total is the number
\* of stored bookings, and the answer reports that page, limit and total
\* and pages = ceil(total / limit)
ListContract(s, Defaulted(_)) ==
    /\ (inflight[s].pc = "idle" /\ inflight'[s].op = "list")
          => LET r == inflight'[s] IN
             /\ Defaulted(r.query.page) => r.list.page = 1
             /\ Defaulted(r.query.limit) => r.list.limit = 10
    /\ (inflight[s].op = "list" /\ inflight[s].pc = "count"
        /\ inflight'[s].pc = "db")
          => /\ inflight'[s].list.total = Cardinality(bookings)
             /\ inflight'[s].list.page = inflight[s].list.page
             /\ inflight'[s].list.limit = inflight[s].list.limit
    /\ (Completes(s, "list") /\ last'.resp = Listed)
          => /\ last'.list.page = inflight[s].list.page
             /\ last'.list.limit = inflight[s].list.limit
             /\ last'.list.total = inflight[s].list.total
             /\ last'.list.total = Cardinality(bookings)
             /\ IsCeiling(last'.list.pages, last'.list.total, last'.list.limit)

C20_NewestFirst ==
    (last.op = "list" /\ last.resp = Listed)
       => LET rows == last.list.bookings IN
          \A i, j \in DOMAIN rows :
              rows[j].id \in audit[rows[i].id].prior => i < j

\* C21: no step removes a booking id from table bookings, and getBooking of
\* the id of a booking that was created, cancelled or not, answers with
\* that booking and never NotFound (unless the store itself fails).
C21_NeverDeleted ==
    [][/\ \A r \in bookings : \E q \in bookings' : q.id = r.id
       /\ DOMAIN audit \subseteq {q.id : q \in bookings'}
       /\ (last'.op = "get" /\ last'.cause # "store" /\ last'.id \in DOMAIN audit)
             => last'.resp = Found(last'.id)]_vars

\* C21 witness: getBooking of a cancelled booking has answered with it
C21_Witness ==
    /\ last.op = "get" /\ last.resp = Found(last.id)
    /\ last.id \in Ids /\ RowOf(last.id).status = "cancelled"
    /\ audit[last.id].cancelled = 1

\* The codes of the seeded stations and the types of the seeded prices
SeedCodes == {InitialStations[i].code : i \in DOMAIN InitialStations}

SeedTypes == {InitialPrices[i].ticket_type : i \in DOMAIN InitialPrices}

\* C22: seeding leaves every row that exists as it is, changed since it was
\* seeded or not; after a seeding there is exactly one row per seeded
\* station code and per seeded ticket type; and a seeding of a table that
\* has been seeded before changes nothing.
C22_SeedIdempotent ==
    [][/\ catalog.stations \subseteq catalog'.stations
       /\ catalog.prices \subseteq catalog'.prices
       /\ catalog'.seededStations > catalog.seededStations
             => /\ \A c \in SeedCodes :
                      Cardinality({r \in catalog'.stations : r.code = c}) = 1
                /\ \A r \in catalog'.stations : r.code \in SeedCodes
                /\ catalog.seededStations > 0 => catalog'.stations = catalog.stations
       /\ catalog'.seededPrices > catalog.seededPrices
             => /\ \A t \in SeedTypes :
                      Cardinality({r \in catalog'.prices : r.ticket_type = t}) = 1
                /\ \A r \in catalog'.prices : r.ticket_type \in SeedTypes
                /\ catalog.seededPrices > 0 => catalog'.prices = catalog.prices]_vars

\* C22 witness: both tables have been seeded twice, and a station row and
\* a price row that were changed before the first seeding are as they were
C22_Witness ==
    /\ catalog.seededStations = 2 /\ catalog.seededPrices = 2
    /\ StationRow(1, "central", "Grand Central", 9, 0) \in catalog.stations
    /\ PriceRow(1, "regular", 300, "Standard fare", 1) \in catalog.prices
    /\ Cardinality(catalog.stations) = 8 /\ Cardinality(catalog.prices) = 4

\* C23 as stated (refuted by the code): the id that either generator makes
\* has exactly 10 characters, for every clock value and random value.
C23_TenCharacters ==
    /\ idgen.server # EmptyId => Len(idgen.server) = 10
    /\ idgen.page # EmptyId => Len(idgen.page) = 10

\* C23 amended: the id that either generator makes has exactly 10
\* characters for every clock value of at least seven digits (1000000 ms,
\* every time from 1970-01-01T00:16:40Z on) and every random value in
\* 0..999.
C23_TenCharactersFromSevenDigits ==
    Len(idgen.clock) >= 7
       => /\ idgen.server # EmptyId => Len(idgen.server) = 10
          /\ idgen.page # EmptyId => Len(idgen.page) = 10

\* C23 witness: both generators have made an id from a clock value of
\* seven digits and a random value of one digit
C23_Witness ==
    /\ Len(idgen.clock) = 7 /\ idgen.random < 10
    /\ Len(idgen.server) = 10 /\ Len(idgen.page) = 10

\* The columns of a booking that a cancellation must not change
Kept(r) ==
    <<r.id, r.from_station, r.to_station, r.travel_date, r.travel_time,
      r.passengers, r.ticket_type, r.total_price, r.qr_code, r.created_at>>

\* C24: the step in which a cancelBooking call succeeds keeps the set of
\* booking ids, leaves every booking with another id as it is, and of the
\* booking with the call's id changes nothing but status and updated_at.
C24_CancelChangesStatusOnly ==
    [][\A s \in Slots :
          (Completes(s, "cancel") /\ last'.resp = Cancelled)
             => /\ {q.id : q \in bookings'} = {r.id : r \in bookings}
                /\ \A r \in bookings : r.id # inflight[s].id => r \in bookings'
                /\ \A r \in bookings, q \in bookings' :
                      (r.id = inflight[s].id /\ q.id = r.id)
                         => /\ Kept(q) = Kept(r)
                            /\ q.status = "cancelled" /\ q.updated_at = now]_vars

\* C24 witness: of two active bookings with QR codes, the older has been
\* cancelled at a later time and the other is still active
C24_Witness ==
    /\ last.op = "cancel" /\ last.resp = Cancelled
    /\ \E r, q \in bookings :
          /\ r.id = last.id /\ r.status = "cancelled" /\ r.qr_code # NoQr
          /\ r.updated_at > r.created_at
          /\ q.id # r.id /\ q.status = "active" /\ q.qr_code # NoQr
          /\ q.created_at > r.created_at

\* C25: for a ticket type with a price and a passenger count of at least 1
\* (what the form's controls submit) calculatePrice, the normal path of
\* processBooking and its fallback path compute the same total, so the total
\* displayed when the form was submitted is the totalPrice of the booking
\* object, of the request body sent to the server and of the booking stored
\* locally by either path (the last of the list once processBooking is done).
C25_SameTotal ==
    LET data == client.data
        count == ParseInt(data.passengers)
        made == client.booking
    IN (/\ client.submitted /\ data.ticketType \in DOMAIN ticketPrices
        /\ ~count.nan /\ count.n >= 1)
          => /\ CalculatePrice(data.passengers, data.ticketType) = made.totalPrice
             /\ FallbackPrice(data.passengers, data.ticketType) = made.totalPrice
             /\ ~made.totalPrice.nan
             /\ client.quoted = ToFixed2(made.totalPrice)
             /\ (client.net.state = "sent" /\ client.net.from = "submit")
                   => client.net.body.totalPrice = made.totalPrice.n
             /\ (client.pc = "idle" /\ client.local # <<>>)
                   => ToFixed2(client.local[Len(client.local)].totalPrice)
                         = client.quoted

\* C25 witness: a day pass for three passengers went through the fallback
\* path and is stored locally with the total that was displayed, 8.00
C25_Witness ==
    /\ client.confirmed = "offline" /\ Len(client.local) = 1
    /\ client.data.passengers = <<3>> /\ client.data.ticketType = "day-pass"
    /\ client.local[1].totalPrice = Number(800)
    /\ client.quoted = <<8, CharDot, 0, 0>>

\* C26 (refuted by the code): once the server has accepted a booking that
\* the page submitted, the id in the confirmation is the id of a stored
\* booking, and GET /api/bookings/:id and POST /api/tickets/validate with
\* that id find it.
C26_ShownIdIsPersisted ==
    [][/\ client'.confirmed = "server"
          => \E r \in bookings' : r.id = client'.shown
       /\ (/\ client.confirmed = "server" /\ last' # last
           /\ last'.op = "get" /\ last'.cause # "store")
             => last'.resp = Found(client.shown)
       /\ (/\ client.confirmed = "server" /\ last' # last
           /\ last'.op = "validate" /\ last'.cause # "store")
             => last'.resp = Valid(client.shown)]_vars

\* C27 (refuted by the code): the server stores at most one booking for
\* each form that the rider submitted, whatever online submissions, offline
\* fallbacks and runs of syncLocalBookings there have been.
C27_OneRecordPerSubmission == Cardinality(bookings) <= client.submissions

\* C28 (refuted by the code): no step removes a booking from the list in
\* local storage, and no step takes the synced flag from a stored booking.
C28_LocalBookingsKept ==
    [][\A i \in DOMAIN client.local :
          \E j \in DOMAIN client'.local :
             /\ client'.local[j].id = client.local[i].id
             /\ client.local[i].synced => client'.local[j].synced]_vars

\* C29 (refuted by the code): when the browser comes online again and again
\* and the store is available, a booking that the fallback path stored
\* locally is eventually accepted by the server and flagged as synced, and
\* from then on no booking in local storage is left to post.
C29_EventuallySynced ==
    (client.confirmed = "offline")
        ~> (\A i \in DOMAIN client.local : client.local[i].synced)

\* C30: a createBooking or cancelBooking call that does not answer success
\* leaves table bookings as it was (a create rejected by the validation
\* stores nothing), and so does every step of getBooking, listBookings and
\* validateTicket; a validation does not use up the ticket: validating the
\* same active ticket again on the same day gives the same answer.
C30_ReadsAndFailuresChangeNothing ==
    [][/\ (/\ last' # last /\ last'.pc = "done"
           /\ \/ last'.op = "create" /\ last'.resp.code # 201
              \/ last'.op = "cancel" /\ last'.resp.code # 200
              \/ last'.op \in {"get", "validate", "list"})
             => bookings' = bookings
       /\ \A s \in Slots :
             (inflight[s].op = "list" \/ inflight'[s].op = "list")
                => bookings' = bookings
       /\ (/\ last.op = "validate" /\ last'.op = "validate"
           /\ last'.id = last.id /\ last'.day = last.day
           /\ last.seen = "active" /\ last'.seen = "active"
           /\ last.cause = "" /\ last'.cause = "")
             => last'.resp = last.resp]_vars

\* C30 witness: the ticket of a stored booking has been validated and found
\* valid, and the booking is still active
C30_Witness ==
    /\ last.op = "validate" /\ last.resp.valid = "true"
    /\ \E r \in bookings : r.id = last.id /\ r.status = "active"

====
